---- MODULE Spec2Model ----
(***************************************************************************)
(* Model of app.py: the JPEG -> WEBP conversion service.                   *)
(*                                                                         *)
(*   POST /convert  = extract_files, the two limit checks, convert_to_webp *)
(*                    and the choice of the HTTP response                  *)
(*   convert_to_webp = the per-upload loop that fills successes, failures  *)
(*                    and the in-memory ZIP archive                        *)
(*                                                                         *)
(* A string is a sequence of one-character strings, so that                *)
(* secure_filename, Path.suffix, Path.stem and str.lower are computed      *)
(* character by character.  Fixed message fragments are kept as one        *)
(* element each.                                                           *)
(***************************************************************************)
EXTENDS Integers, Sequences, FiniteSets, TLC

(***************************************************************************)
(* Program constants.                                                      *)
(***************************************************************************)
MAX_FILE_COUNT == 200

ALLOWED_SUFFIXES == { <<".", "j", "p", "g">>, <<".", "j", "p", "e", "g">> }

WEBP_EXPORT_ARGS == [format |-> "WEBP", quality |-> 95, method |-> 6, lossless |-> FALSE]

(***************************************************************************)
(* Bounds of the model.                                                    *)
(***************************************************************************)
\* longest batch whose uploads are drawn freely from Uploads
MaxLen == 3
\* number of requests served one after the other in SpecSeq
MaxRequests == 3
\* longest batch of a request in SpecSeq
MaxSeqLen == 2

(***************************************************************************)
(* Characters.                                                             *)
(***************************************************************************)
LowerLetters ==
  {"a","b","c","d","e","f","g","h","i","j","k","l","m",
   "n","o","p","q","r","s","t","u","v","w","x","y","z"}

UpperLetters ==
  {"A","B","C","D","E","F","G","H","I","J","K","L","M",
   "N","O","P","Q","R","S","T","U","V","W","X","Y","Z"}

Digits == {"0","1","2","3","4","5","6","7","8","9"}

\* the characters _filename_ascii_strip_re keeps: [A-Za-z0-9_.-]
SafeChars == LowerLetters \cup UpperLetters \cup Digits \cup {"_", ".", "-"}

\* ASCII characters that occur in the modelled filenames; any other
\* one-element token (such as "U+65E5") stands for a non-ASCII character
AsciiChars == SafeChars \cup {" ", "/", "\\", ":", "*"}

LowerChar(c) ==
  CASE c = "A" -> "a" [] c = "B" -> "b" [] c = "C" -> "c" [] c = "D" -> "d"
    [] c = "E" -> "e" [] c = "F" -> "f" [] c = "G" -> "g" [] c = "H" -> "h"
    [] c = "I" -> "i" [] c = "J" -> "j" [] c = "K" -> "k" [] c = "L" -> "l"
    [] c = "M" -> "m" [] c = "N" -> "n" [] c = "O" -> "o" [] c = "P" -> "p"
    [] c = "Q" -> "q" [] c = "R" -> "r" [] c = "S" -> "s" [] c = "T" -> "t"
    [] c = "U" -> "u" [] c = "V" -> "v" [] c = "W" -> "w" [] c = "X" -> "x"
    [] c = "Y" -> "y" [] c = "Z" -> "z"
    [] OTHER -> c

\* the comparison without .lower(): an uppercase extension is refused
LowerForgotten(s) == s

\* str.lower()
Lower(s) == [i \in 1..Len(s) |-> LowerChar(s[i])]

(***************************************************************************)
(* werkzeug.utils.secure_filename, as called at line 115.                  *)
(***************************************************************************)
\* filename.encode("ascii", "ignore").decode("ascii")
AsciiOnly(s) == SelectSeq(s, LAMBDA c : c \in AsciiChars)

\* filename.replace(os.sep, " "), os.sep being "/" (POSIX); "\\" is then
\* an ordinary character, which KeepSafe removes
ReplaceSep(s) == [i \in 1..Len(s) |-> IF s[i] = "/" THEN " " ELSE s[i]]

\* "_".join(filename.split()): runs of blanks become one "_", blanks at
\* either end are dropped
RECURSIVE JoinWords(_, _, _)
JoinWords(s, i, acc) ==
  IF i > Len(s) THEN acc
  ELSE IF s[i] = " "
       THEN JoinWords(s, i + 1, acc)
       ELSE IF i > 1 /\ s[i - 1] = " " /\ acc # <<>>
            THEN JoinWords(s, i + 1, acc \o <<"_", s[i]>>)
            ELSE JoinWords(s, i + 1, Append(acc, s[i]))

\* _filename_ascii_strip_re.sub("", ...)
KeepSafe(s) == SelectSeq(s, LAMBDA c : c \in SafeChars)

\* .strip("._")
RECURSIVE StripDots(_)
StripDots(s) ==
  IF s = <<>> THEN s
  ELSE IF Head(s) \in {".", "_"} THEN StripDots(Tail(s))
  ELSE IF s[Len(s)] \in {".", "_"} THEN StripDots(SubSeq(s, 1, Len(s) - 1))
  ELSE s

secure_filename(filename) ==
  StripDots(KeepSafe(JoinWords(ReplaceSep(AsciiOnly(filename)), 1, <<>>)))

(***************************************************************************)
(* pathlib.Path(filename).suffix and .stem (lines 116 and 127).  The       *)
(* argument is a sanitized name, which holds no path separator.            *)
(***************************************************************************)
\* name.rfind("."), 1-based, 0 when there is no dot
LastDot(name) ==
  LET dots == {i \in 1..Len(name) : name[i] = "."}
  IN  IF dots = {} THEN 0 ELSE CHOOSE i \in dots : \A j \in dots : j <= i

PathSuffix(name) ==
  LET i == LastDot(name)
  IN  IF 1 < i /\ i < Len(name) THEN SubSeq(name, i, Len(name)) ELSE <<>>

PathStem(name) ==
  LET i == LastDot(name)
  IN  IF 1 < i /\ i < Len(name) THEN SubSeq(name, 1, i - 1) ELSE name

(***************************************************************************)
(* Uploads.  An upload (FileStorage) is a filename and a stream; the       *)
(* stream is named by what it holds.                                       *)
(***************************************************************************)
\* streams PIL decodes (Image.open identifies the format from the bytes,
\* not from the filename)
DecodableStreams == {"jpegA", "jpegB", "pngA"}

\* streams Image.open rejects with UnidentifiedImageError: no bytes at
\* all, or bytes of no known image format
UnidentifiedStreams == {"empty", "text"}

\* a JPEG cut short: Image.open succeeds, img.convert fails with OSError
TruncatedStreams == {"truncated"}

\* an image of more than twice Image.MAX_IMAGE_PIXELS pixels: Image.open
\* raises DecompressionBombError, which is neither an OSError nor an
\* UnidentifiedImageError
BombStreams == {"bomb"}

Streams == DecodableStreams \cup UnidentifiedStreams \cup TruncatedStreams \cup BombStreams

Upload(filename, stream) == [filename |-> filename, stream |-> stream]

PhotoJPG  == Upload(<<"p","h","o","t","o",".","J","P","G">>, "jpegA")
PhotoJpeg == Upload(<<"p","h","o","t","o",".","j","p","e","g">>, "pngA")
NoteTxt   == Upload(<<"n","o","t","e",".","t","x","t">>, "text")
CorruptA  == Upload(<<"a",".","j","p","g">>, "text")
ZeroByte  == Upload(<<"e",".","j","p","g">>, "empty")
CutShort  == Upload(<<"t",".","j","p","e","g">>, "truncated")
Bomb      == Upload(<<"b","i","g",".","j","p","g">>, "bomb")
NoExt     == Upload(<<"n","o","e","x","t">>, "jpegA")
Slashes   == Upload(<<"U+65E5","/","/">>, "jpegB")
Traversal == Upload(<<".",".","/","x",".","y",".","J","P","E","G">>, "jpegB")
Unnamed   == Upload(<<>>, "jpegA")

Uploads ==
  {PhotoJPG, PhotoJpeg, NoteTxt, CorruptA, ZeroByte, CutShort, Bomb, NoExt,
   Slashes, Traversal, Unnamed}

\* the uploads of the requests of SpecSeq
SeqUploads == {PhotoJPG, NoteTxt, Bomb}

\* all sequences over S of length at most n
SeqsUpTo(S, n) == UNION {[1..k -> S] : k \in 0..n}

\* n copies of u
Repeat(u, n) == [k \in 1..n |-> u]

\* batches at the file-count limit
LongBatches ==
  { Repeat(PhotoJPG, MAX_FILE_COUNT),
    Repeat(NoteTxt, MAX_FILE_COUNT),
    <<Unnamed>> \o Repeat(PhotoJPG, MAX_FILE_COUNT),
    Repeat(PhotoJPG, MAX_FILE_COUNT + 1),
    <<NoteTxt, Unnamed>> \o Repeat(PhotoJPG, MAX_FILE_COUNT) }

Batches == SeqsUpTo(Uploads, MaxLen) \cup LongBatches

SeqBatches ==
  SeqsUpTo(SeqUploads, MaxSeqLen) \cup {<<CorruptA>> \o Repeat(PhotoJPG, MAX_FILE_COUNT)}

(***************************************************************************)
(* convert_single_stream (lines 147-154) and the exception it ends with.   *)
(***************************************************************************)
\* how the call on this upload ends: "ok", or the class of the exception
convert_single_stream_outcome(upload) ==
  CASE upload.stream \in DecodableStreams    -> "ok"
    [] upload.stream \in UnidentifiedStreams -> "UnidentifiedImageError"
    [] upload.stream \in TruncatedStreams    -> "OSError"
    [] upload.stream \in BombStreams         -> "DecompressionBombError"

\* the buffer returned: the pixels of the stream, converted to RGB and
\* saved with WEBP_EXPORT_ARGS
convert_single_stream(upload) ==
  [format |-> WEBP_EXPORT_ARGS.format, quality |-> WEBP_EXPORT_ARGS.quality,
   method |-> WEBP_EXPORT_ARGS.method, lossless |-> WEBP_EXPORT_ARGS.lossless,
   mode |-> "RGB", pixels |-> upload.stream]

\* str(exc)
ExcText(upload) ==
  CASE upload.stream \in UnidentifiedStreams -> <<"cannot identify image file">>
    [] upload.stream \in TruncatedStreams    -> <<"image file is truncated">>
    [] OTHER                                 -> <<"decompression bomb">>

\* the exception classes the except clause of line 123 names
CaughtExceptions == {"UnidentifiedImageError", "OSError"}

(***************************************************************************)
(* The pieces of convert_to_webp's loop body.                              *)
(***************************************************************************)
\* line 115
Sanitized(upload) == secure_filename(upload.filename)

\* lines 116-117
SuffixAllowed(upload) == Lower(PathSuffix(Sanitized(upload))) \in ALLOWED_SUFFIXES

\* the name without the 'Unknown' fallback
DisplayNameNoFallback(upload) == Sanitized(upload)

\* filename or 'Unknown'
DisplayName(upload) ==
  IF Sanitized(upload) # <<>> THEN Sanitized(upload) ELSE <<"Unknown">>

\* line 118
UnsupportedMessage(upload) == DisplayName(upload) \o <<": ", "unsupported file type">>

\* line 124
ErrorMessage(upload) == DisplayName(upload) \o <<": ">> \o ExcText(upload)

\* line 127
WebpName(upload) == PathStem(Sanitized(upload)) \o <<".", "w", "e", "b", "p">>

\* list.insert(0, item) in the place of list.append
ListPrepend(list, item) == <<item>> \o list

\* list.append (lines 118, 124 and 129)
ListAppend(list, item) == Append(list, item)

\* line 103
extract_files(file_list) == SelectSeq(file_list, LAMBDA f : f.filename # <<>>)

(***************************************************************************)
(* The in-memory ZIP archive: the BytesIO buffer and the ZipFile writing   *)
(* to it.  A ZIP container is its local entries followed by the central    *)
(* directory, which ZipFile.close() writes; a reader lists the directory.  *)
(***************************************************************************)
\* BytesIO()
NewBuffer == [entries |-> <<>>, directory |-> <<>>, finalized |-> FALSE]

\* ZipFile(archive, "w")
NewZipFile == [open |-> TRUE, filelist |-> <<>>]

\* zipped.writestr(name, data): the buffer afterwards
WritestrBuffer(buf, name, data) ==
  [buf EXCEPT !.entries = Append(@, [name |-> name, data |-> data])]

\* a writer that keeps one entry per name
WritestrZipUnique(zip, name) ==
  IF \E k \in 1..Len(zip.filelist) : zip.filelist[k] = name
  THEN zip
  ELSE [zip EXCEPT !.filelist = Append(@, name)]

\* zipped.writestr(name, data): the writer afterwards
WritestrZip(zip, name) == [zip EXCEPT !.filelist = Append(@, name)]

\* a close that writes the directory only when something was stored
CloseBufferNonEmpty(buf, zip) ==
  IF zip.open /\ zip.filelist # <<>>
  THEN [buf EXCEPT !.directory = zip.filelist, !.finalized = TRUE]
  ELSE buf

\* ZipFile.close(), run by the with statement on every way out of it
CloseBuffer(buf, zip) ==
  IF zip.open
  THEN [buf EXCEPT !.directory = zip.filelist, !.finalized = TRUE]
  ELSE buf

CloseZip(zip) == [zip EXCEPT !.open = FALSE]

\* what a ZIP reader lists: ZipFile(archive).namelist()
Namelist(buf) == buf.directory

(***************************************************************************)
(* Messages and responses of the /convert handler.                         *)
(***************************************************************************)
\* "\n".join(failures)
RECURSIVE JoinLines(_, _)
JoinLines(lines, k) ==
  IF k = 0 THEN <<>>
  ELSE IF k = 1 THEN lines[1]
  ELSE JoinLines(lines, k - 1) \o <<"\n">> \o lines[k]

\* lines 45-46
TooManyMessage(n) ==
  <<"Please upload at most ", ToString(MAX_FILE_COUNT), " images at once. ",
    "We received ", ToString(n), " files.">>

\* line 52
NoFilesMessage == <<"Please choose at least one JPG/JPEG image.">>

\* line 58
ErrorText(fails) ==
  IF fails # <<>> THEN JoinLines(fails, Len(fails))
  ELSE <<"Unable to convert the uploads.">>

\* line 63
WarningMessage(succ, fails) ==
  <<"Converted ", ToString(Len(succ)), " file(s). Skipped ",
    ToString(Len(fails)), " issue(s).">>

Flash(message, category) == [category |-> category, message |-> message]

NoResponse ==
  [status |-> 0, location |-> "", mimetype |-> "", as_attachment |-> FALSE,
   body |-> <<>>]

\* redirect(url_for("index"))
RedirectToIndex == [NoResponse EXCEPT !.status = 302, !.location = "/"]

\* send_file(archive, mimetype="application/zip", as_attachment=True, ...)
SendFile(buf) ==
  [NoResponse EXCEPT !.status = 200, !.mimetype = "application/zip",
                     !.as_attachment = TRUE, !.body = <<buf>>]

\* render_error_page(500, ...)
ErrorPage500 == [NoResponse EXCEPT !.status = 500, !.mimetype = "text/html"]

\* the limit test with >= in the place of >
TooManyInclusive(fs) == Len(fs) >= MAX_FILE_COUNT

\* line 43
TooMany(fs) == Len(fs) > MAX_FILE_COUNT

\* line 51
NoFiles(fs) == fs = <<>>

\* line 57
NoSuccess(succ) == succ = <<>>

\* the warning test off by one
SeveralFailures(fails) == Len(fails) > 1

\* line 62
HasFailures(fails) == fails # <<>>

(***************************************************************************)
(* State.                                                                  *)
(***************************************************************************)
VARIABLES
  mode,           \* "http": POST /convert; "call": convert_to_webp called directly
  request_files,  \* request.files.getlist("images"), or the argument of the call
  pc,             \* "received", "loop", "returned", "raised", "responded"
  files,          \* convert's files
  uploads,        \* convert_to_webp's uploads
  i,              \* position of the for loop in uploads (1-based)
  successes,      \* convert_to_webp's successes
  failures,       \* convert_to_webp's failures
  archive,        \* convert_to_webp's archive
  zipped,         \* convert_to_webp's zipped
  calls,          \* the positions convert_single_stream was called on, in order
  flashes,        \* the messages flashed by this request
  response,       \* the response of this request
  reqno,          \* number of the request being served
  remembered      \* an earlier pipeline run, kept for comparison: <<>> or <<run>>

vars ==
  <<mode, request_files, pc, files, uploads, i, successes, failures, archive,
    zipped, calls, flashes, response, reqno, remembered>>

locals == <<uploads, i, successes, failures, archive, zipped, calls>>

TypeOK ==
  /\ mode \in {"http", "call"}
  /\ pc \in {"received", "loop", "returned", "raised", "responded"}
  /\ i \in 1..(Len(uploads) + 1)
  /\ zipped.open \in BOOLEAN
  /\ archive.finalized \in BOOLEAN
  /\ reqno \in 1..(MaxRequests + 1)
  /\ Len(remembered) <= 1

\* lines 109-113: the fresh locals of a call
InitialSuccesses == <<>>

\* a failures list that outlives the call
SharedFailures == failures

InitialFailures == <<>>

InitialArchive == NewBuffer

InitialZip == NewZipFile

InitWith(batches) ==
  /\ mode \in {"http", "call"}
  /\ request_files \in batches
  /\ pc = "received"
  /\ files = <<>>
  /\ uploads = <<>>
  /\ i = 1
  /\ successes = <<>>
  /\ failures = <<>>
  /\ archive = NewBuffer
  /\ zipped = CloseZip(NewZipFile)
  /\ calls = <<>>
  /\ flashes = <<>>
  /\ response = NoResponse
  /\ reqno = 1
  /\ remembered = <<>>

Init == InitWith(Batches)

InitSeq == InitWith(SeqBatches)

(***************************************************************************)
(* convert_to_webp.                                                        *)
(***************************************************************************)
\* lines 109-113: successes, failures, archive and the ZipFile are created
Enter(ups) ==
  /\ uploads' = ups
  /\ i' = 1
  /\ successes' = InitialSuccesses
  /\ failures' = InitialFailures
  /\ archive' = InitialArchive
  /\ zipped' = InitialZip
  /\ calls' = <<>>
  /\ pc' = "loop"

\* the run that ends in this step, as the caller can observe it
Run(ended, succ, fails, buf) ==
  [uploads |-> uploads, ended |-> ended, successes |-> succ,
   failures |-> fails, archive |-> buf]

\* convert_to_webp called directly with a sequence of uploads
Call ==
  /\ pc = "received"
  /\ mode = "call"
  /\ Enter(request_files)
  /\ UNCHANGED <<mode, request_files, files, flashes, response, reqno, remembered>>

\* lines 115-119: an upload whose suffix is not allowed
Loop_Unsupported ==
  /\ pc = "loop"
  /\ i <= Len(uploads)
  /\ ~SuffixAllowed(uploads[i])
  /\ failures' = ListAppend(failures, UnsupportedMessage(uploads[i]))
  /\ i' = i + 1
  /\ UNCHANGED <<mode, request_files, pc, files, uploads, successes, archive,
                 zipped, calls, flashes, response, reqno, remembered>>

\* lines 121-125: convert_single_stream raises an exception the except
\* clause names
Loop_DecodeError ==
  /\ pc = "loop"
  /\ i <= Len(uploads)
  /\ SuffixAllowed(uploads[i])
  /\ convert_single_stream_outcome(uploads[i]) \in CaughtExceptions
  /\ calls' = Append(calls, i)
  /\ failures' = ListAppend(failures, ErrorMessage(uploads[i]))
  /\ i' = i + 1
  /\ UNCHANGED <<mode, request_files, pc, files, uploads, successes, archive,
                 zipped, flashes, response, reqno, remembered>>

\* lines 121-129: the upload is converted and stored
Loop_Store ==
  /\ pc = "loop"
  /\ i <= Len(uploads)
  /\ SuffixAllowed(uploads[i])
  /\ convert_single_stream_outcome(uploads[i]) = "ok"
  /\ calls' = Append(calls, i)
  /\ archive' = WritestrBuffer(archive, WebpName(uploads[i]),
                               convert_single_stream(uploads[i]))
  /\ zipped' = WritestrZip(zipped, WebpName(uploads[i]))
  /\ successes' = ListAppend(successes, WebpName(uploads[i]))
  /\ i' = i + 1
  /\ UNCHANGED <<mode, request_files, pc, files, uploads, failures, flashes,
                 response, reqno, remembered>>

\* lines 121-123: convert_single_stream raises an exception the except
\* clause does not name; the with statement closes the ZipFile and the
\* exception leaves convert_to_webp
Loop_Propagate ==
  /\ pc = "loop"
  /\ i <= Len(uploads)
  /\ SuffixAllowed(uploads[i])
  /\ convert_single_stream_outcome(uploads[i]) \notin CaughtExceptions \cup {"ok"}
  /\ calls' = Append(calls, i)
  /\ archive' = CloseBuffer(archive, zipped)
  /\ zipped' = CloseZip(zipped)
  /\ pc' = "raised"
  /\ UNCHANGED <<mode, request_files, files, uploads, i, successes, failures,
                 flashes, response, reqno, remembered>>

\* lines 113 and 131: the loop is over, the with statement closes the
\* ZipFile, and the three results are returned
Loop_Exit ==
  /\ pc = "loop"
  /\ i > Len(uploads)
  /\ archive' = CloseBuffer(archive, zipped)
  /\ zipped' = CloseZip(zipped)
  /\ pc' = "returned"
  /\ UNCHANGED <<mode, request_files, files, uploads, i, successes, failures,
                 calls, flashes, response, reqno, remembered>>

(***************************************************************************)
(* POST /convert.                                                          *)
(***************************************************************************)
\* lines 42-49
Convert_TooMany ==
  /\ pc = "received"
  /\ mode = "http"
  /\ TooMany(extract_files(request_files))
  /\ files' = extract_files(request_files)
  /\ flashes' = Append(flashes, Flash(TooManyMessage(Len(files')), "error"))
  /\ response' = RedirectToIndex
  /\ pc' = "responded"
  /\ UNCHANGED <<mode, request_files, locals, reqno, remembered>>

\* lines 42, 51-53
Convert_NoFiles ==
  /\ pc = "received"
  /\ mode = "http"
  /\ ~TooMany(extract_files(request_files))
  /\ NoFiles(extract_files(request_files))
  /\ files' = extract_files(request_files)
  /\ flashes' = Append(flashes, Flash(NoFilesMessage, "error"))
  /\ response' = RedirectToIndex
  /\ pc' = "responded"
  /\ UNCHANGED <<mode, request_files, locals, reqno, remembered>>

\* lines 42, 55: convert_to_webp(files) is called
Convert_Pipeline ==
  /\ pc = "received"
  /\ mode = "http"
  /\ ~TooMany(extract_files(request_files))
  /\ ~NoFiles(extract_files(request_files))
  /\ files' = extract_files(request_files)
  /\ Enter(files')
  /\ UNCHANGED <<mode, request_files, flashes, response, reqno, remembered>>

\* lines 57-60
Respond_Redirect ==
  /\ pc = "returned"
  /\ mode = "http"
  /\ NoSuccess(successes)
  /\ flashes' = Append(flashes, Flash(ErrorText(failures), "error"))
  /\ response' = RedirectToIndex
  /\ pc' = "responded"
  /\ UNCHANGED <<mode, request_files, files, locals, reqno, remembered>>

\* lines 62-73
Respond_Archive ==
  /\ pc = "returned"
  /\ mode = "http"
  /\ ~NoSuccess(successes)
  /\ flashes' = IF HasFailures(failures)
                THEN Append(flashes, Flash(WarningMessage(successes, failures), "warning"))
                ELSE flashes
  /\ response' = SendFile(archive)
  /\ pc' = "responded"
  /\ UNCHANGED <<mode, request_files, files, locals, reqno, remembered>>

\* lines 90-97: an exception that left convert reaches handle_unexpected_error
Handle_Unexpected ==
  /\ pc = "raised"
  /\ mode = "http"
  /\ response' = ErrorPage500
  /\ pc' = "responded"
  /\ UNCHANGED <<mode, request_files, files, locals, flashes, reqno, remembered>>

\* the request, or the direct call, is over
Finished ==
  \/ pc = "responded"
  \/ mode = "call" /\ pc \in {"returned", "raised"}

\* the locals hold a run of convert_to_webp that is over
RunOver == pc \in {"returned", "raised", "responded"} /\ archive.finalized

\* the next request arrives once this one is over; the locals of the
\* finished call are garbage and are not touched
NextRequest ==
  /\ Finished
  /\ reqno < MaxRequests
  /\ reqno' = reqno + 1
  /\ mode' \in {"http", "call"}
  /\ request_files' \in SeqBatches
  /\ pc' = "received"
  /\ files' = <<>>
  /\ flashes' = <<>>
  /\ response' = NoResponse
  /\ UNCHANGED <<locals, remembered>>

\* bookkeeping of the comparison of two runs: the run that is over is kept
Remember ==
  /\ RunOver
  /\ remembered = <<>>
  /\ remembered' =
       <<[reqno |-> reqno,
          run |-> Run(IF i > Len(uploads) THEN "returned" ELSE "raised",
                      successes, failures, archive)]>>
  /\ UNCHANGED <<mode, request_files, pc, files, locals, flashes, response, reqno>>

Next ==
  \/ Call
  \/ Loop_Unsupported
  \/ Loop_DecodeError
  \/ Loop_Store
  \/ Loop_Propagate
  \/ Loop_Exit
  \/ Convert_TooMany
  \/ Convert_NoFiles
  \/ Convert_Pipeline
  \/ Respond_Redirect
  \/ Respond_Archive
  \/ Handle_Unexpected

Spec == Init /\ [][Next]_vars

NextSeq == Next \/ NextRequest \/ Remember

SpecSeq == InitSeq /\ [][NextSeq]_vars

(***************************************************************************)
(* Vocabulary of the properties.                                           *)
(***************************************************************************)
Jpg == <<".", "j", "p", "g">>

Jpeg == <<".", "j", "p", "e", "g">>

DotWebp == <<".", "w", "e", "b", "p">>

\* the lowercase extension of the sanitized filename
LowerExt(u) == Lower(PathSuffix(secure_filename(u.filename)))

\* a valid image under an allowed extension
Valid(u) == LowerExt(u) \in {Jpg, Jpeg} /\ u.stream \in DecodableStreams

\* the positions 1..n of ups that satisfy P, in increasing order
Positions(ups, n, P(_)) == SelectSeq([k \in 1..n |-> k], LAMBDA k : P(ups[k]))

NotValid(u) == ~Valid(u)

\* convert_to_webp has been entered in this request and its locals hold the run
InRun == pc \in {"loop", "returned", "raised"} \/ (pc = "responded" /\ archive.finalized)

\* convert_to_webp has returned in this request
HasReturned == (pc = "returned" \/ (pc = "responded" /\ archive.finalized)) /\ i > Len(uploads)

\* the names of the local entries of the buffer, in order
EntryNames(buf) == [k \in 1..Len(buf.entries) |-> buf.entries[k].name]

(***************************************************************************)
(* C1.  For every sequence of N uploads of which M are valid, the call     *)
(* ends by returning exactly M successes and N-M failures with M archive   *)
(* entries: every upload has exactly one outcome and none is dropped.      *)
(* Stated of every way the call can end.                                   *)
(***************************************************************************)
C1_ExactCounts ==
  pc \in {"returned", "raised"} =>
    LET N == Len(uploads)
        M == Cardinality({k \in 1..N : Valid(uploads[k])})
    IN  /\ pc = "returned"
        /\ Len(successes) = M
        /\ Len(failures) = N - M
        /\ Len(Namelist(archive)) = M

(***************************************************************************)
(* C2.  No fault raised while converting one upload leaves                 *)
(* convert_to_webp or keeps the later uploads from being processed: each   *)
(* is caught and becomes the message "<sanitized name>: <error text>".     *)
(***************************************************************************)
C2_NoFaultPropagates ==
  /\ pc # "raised"
  /\ response.status # 500
  /\ \A k \in 1..Len(calls) :
       convert_single_stream_outcome(uploads[calls[k]]) # "ok" =>
         \E m \in 1..Len(failures) :
           failures[m] = secure_filename(uploads[calls[k]].filename)
                           \o <<": ">> \o ExcText(uploads[calls[k]])

(***************************************************************************)
(* C3.  When the loop is at an upload whose sanitized filename has a       *)
(* lowercase extension outside {.jpg, .jpeg}, the step it takes does not   *)
(* call convert_single_stream, adds no archive entry and no success, and   *)
(* appends the one failure "<name>: unsupported file type", <name> being   *)
(* the sanitized filename, or "Unknown" when that is empty.                *)
(***************************************************************************)
C3_Name(u) ==
  IF secure_filename(u.filename) = <<>> THEN <<"Unknown">>
  ELSE secure_filename(u.filename)

C3_StepOnUnsupported ==
  (pc = "loop" /\ i <= Len(uploads) /\ LowerExt(uploads[i]) \notin {Jpg, Jpeg}) =>
    /\ calls' = calls
    /\ successes' = successes
    /\ archive' = archive
    /\ zipped' = zipped
    /\ failures' = Append(failures,
                          C3_Name(uploads[i]) \o <<": ", "unsupported file type">>)
    /\ i' = i + 1
    /\ pc' = "loop"

C4_ArchiveMatchesSuccesses ==
  HasReturned =>
    /\ Namelist(archive) = successes
    /\ EntryNames(archive) = successes

\* two uploads with the same stem were both stored under the same name
C4_Witness ==
  /\ HasReturned
  /\ Len(successes) = 2
  /\ successes[1] = successes[2]
  /\ uploads[1] # uploads[2]
  /\ Namelist(archive) = <<successes[1], successes[1]>>

(***************************************************************************)
(* C5.  In POST /convert, once the pipeline has returned: with no success  *)
(* the response is a redirect to "/" that flashes the failure reasons      *)
(* joined by newlines (the generic text when there are none) and carries   *)
(* no ZIP; with at least one success it is HTTP 200 with the archive as an *)
(* application/zip attachment, and a warning is flashed exactly when       *)
(* failures is not empty.                                                  *)
(***************************************************************************)
C5_ResponseAfterPipeline ==
  (mode = "http" /\ pc = "responded" /\ HasReturned) =>
    IF Len(successes) = 0
    THEN /\ response.status = 302
         /\ response.location = "/"
         /\ response.body = <<>>
         /\ flashes =
              <<[category |-> "error",
                 message |-> IF Len(failures) = 0
                             THEN <<"Unable to convert the uploads.">>
                             ELSE JoinLines(failures, Len(failures))]>>
    ELSE /\ response.status = 200
         /\ response.mimetype = "application/zip"
         /\ response.as_attachment
         /\ response.body = <<archive>>
         /\ (Len(failures) > 0) <=>
              (\E k \in 1..Len(flashes) : flashes[k].category = "warning")
         /\ Len(flashes) = (IF Len(failures) > 0 THEN 1 ELSE 0)

\* a ZIP was sent although two of the three uploads failed, with the warning
C5_Witness ==
  /\ mode = "http"
  /\ pc = "responded"
  /\ HasReturned
  /\ Len(successes) = 1
  /\ Len(failures) = 2
  /\ response.status = 200
  /\ response.body = <<archive>>
  /\ flashes = <<[category |-> "warning",
                  message |-> <<"Converted ", "1", " file(s). Skipped ", "2", " issue(s).">>]>>

(***************************************************************************)
(* C6.  In POST /convert the uploads with an empty filename are filtered   *)
(* out first, and convert_to_webp is invoked exactly when 1 to 200 files   *)
(* qualify, on those files; with none, or with more than 200, the response *)
(* is a redirect to "/" with the matching message and convert_to_webp is   *)
(* never called.                                                           *)
(***************************************************************************)
C6_Qualifying == SelectSeq(request_files, LAMBDA f : Len(f.filename) > 0)

C6_LimitsBeforePipeline ==
  mode = "http" =>
    /\ pc \in {"loop", "returned", "raised"} =>
         /\ Len(C6_Qualifying) >= 1
         /\ Len(C6_Qualifying) <= 200
         /\ uploads = C6_Qualifying
    /\ (pc = "responded" /\ Len(C6_Qualifying) >= 1 /\ Len(C6_Qualifying) <= 200) =>
         /\ uploads = C6_Qualifying
         /\ archive.finalized
    /\ (pc = "responded" /\ Len(C6_Qualifying) = 0) =>
         /\ response = [status |-> 302, location |-> "/", mimetype |-> "",
                        as_attachment |-> FALSE, body |-> <<>>]
         /\ flashes = <<[category |-> "error",
                         message |-> <<"Please choose at least one JPG/JPEG image.">>]>>
         /\ uploads = <<>> /\ calls = <<>> /\ ~archive.finalized
    /\ (pc = "responded" /\ Len(C6_Qualifying) > 200) =>
         /\ response = [status |-> 302, location |-> "/", mimetype |-> "",
                        as_attachment |-> FALSE, body |-> <<>>]
         /\ flashes = <<[category |-> "error",
                         message |-> <<"Please upload at most ", "200",
                                       " images at once. ", "We received ",
                                       ToString(Len(C6_Qualifying)), " files.">>]>>
         /\ uploads = <<>> /\ calls = <<>> /\ ~archive.finalized

\* 201 parts of which one has no filename: exactly 200 qualify, the
\* pipeline ran on them and the archive was sent
C6_Witness ==
  /\ mode = "http"
  /\ pc = "responded"
  /\ Len(request_files) = 201
  /\ Len(C6_Qualifying) = 200
  /\ uploads = C6_Qualifying
  /\ Len(successes) = 200
  /\ response.status = 200

(***************************************************************************)
(* C7.  Input order is preserved within each result list: successes holds  *)
(* the output names of the uploads converted so far in input order, and    *)
(* failures the messages of the uploads that failed so far in input order; *)
(* the uploads are handled one at a time, in input order.                  *)
(***************************************************************************)
C7_FailureOf(u) ==
  IF LowerExt(u) \in {Jpg, Jpeg} THEN ErrorMessage(u) ELSE UnsupportedMessage(u)

C7_OrderPreserved ==
  InRun =>
    LET ok  == Positions(uploads, i - 1, Valid)
        bad == Positions(uploads, i - 1, NotValid)
    IN  /\ successes = [j \in 1..Len(ok) |-> WebpName(uploads[ok[j]])]
        /\ failures = [j \in 1..Len(bad) |-> C7_FailureOf(uploads[bad[j]])]
        /\ Namelist(archive) \in {<<>>, successes}
        /\ \A a, b \in 1..Len(calls) : a < b => calls[a] < calls[b]
        /\ \A a \in 1..Len(calls) : calls[a] <= i

\* three uploads, a success between two failures with different messages
C7_Witness ==
  /\ pc = "returned"
  /\ Len(uploads) = 3
  /\ Len(failures) = 2
  /\ failures[1] # failures[2]
  /\ ~Valid(uploads[1]) /\ Valid(uploads[2]) /\ ~Valid(uploads[3])
  /\ failures[1] = C7_FailureOf(uploads[1])
  /\ failures[2] = C7_FailureOf(uploads[3])
  /\ Len(successes) = 1

(***************************************************************************)
(* C8.  Every name in successes is the stem of the sanitized input         *)
(* filename followed by ".webp", the extension test being                  *)
(* case-insensitive: photo.JPG gives photo.webp, and an upload without an  *)
(* extension is rejected, not converted.                                   *)
(***************************************************************************)
\* the output name expected of each decodable upload of the model
C8_Expected(u) ==
  CASE u = PhotoJPG  -> <<"p","h","o","t","o",".","w","e","b","p">>
    [] u = PhotoJpeg -> <<"p","h","o","t","o",".","w","e","b","p">>
    [] u = Traversal -> <<"x",".","y",".","w","e","b","p">>
    [] OTHER         -> <<"rejected">>

C8_Convertible(u) == u \in {PhotoJPG, PhotoJpeg, Traversal}

C8_OutputNames ==
  InRun =>
    LET ok == Positions(uploads, i - 1, C8_Convertible)
    IN  /\ successes = [j \in 1..Len(ok) |-> C8_Expected(uploads[ok[j]])]
        /\ \A j \in 1..Len(successes) :
             /\ Len(successes[j]) > 5
             /\ SubSeq(successes[j], Len(successes[j]) - 4, Len(successes[j])) = DotWebp

\* photo.JPG and note.txt, as in the scenario, and a name with no extension
C8_Witness ==
  /\ pc = "returned"
  /\ uploads = <<PhotoJPG, NoteTxt, NoExt>>
  /\ successes = << <<"p","h","o","t","o",".","w","e","b","p">> >>
  /\ failures = << <<"n","o","t","e",".","t","x","t", ": ", "unsupported file type">>,
                   <<"n","o","e","x","t", ": ", "unsupported file type">> >>
  /\ Namelist(archive) = successes

(***************************************************************************)
(* C9.  Whenever convert_to_webp returns, the ZIP writer has been closed   *)
(* and the buffer is a complete archive, on every path; the empty input    *)
(* gives empty successes, empty failures and a complete empty archive.     *)
(***************************************************************************)
C9_ClosedOnReturn ==
  /\ pc = "returned" =>
       /\ ~zipped.open
       /\ archive.finalized
       /\ archive.directory = EntryNames(archive)
  /\ (pc = "returned" /\ uploads = <<>>) =>
       /\ successes = <<>>
       /\ failures = <<>>
       /\ archive = [entries |-> <<>>, directory |-> <<>>, finalized |-> TRUE]
  /\ pc = "loop" => zipped.open

\* the call on the empty sequence has returned
C9_Witness ==
  /\ mode = "call"
  /\ pc = "returned"
  /\ request_files = <<>>
  /\ uploads = <<>>
  /\ archive.finalized

====
